---- MODULE Spec2Model ----
(***************************************************************************)
(* Alert-dispatch engine of backend/app.py: the scheduled scan             *)
(* run_scheduled_alert_check with its cooldown ledger sent_alert_cache,    *)
(* the on-demand scan trigger_check, and the sentiment / urgency           *)
(* classification of analyze_sentiment and analyze_signals_with_llm.       *)
(*                                                                         *)
(* Times are seconds (time.time()); VADER compound scores are kept in      *)
(* units of 1/10000 (VADER rounds compound to four decimals), so 0.05 is   *)
(* 500 and -0.5 is -5000.                                                  *)
(***************************************************************************)
EXTENDS Integers, Sequences, FiniteSets, TLC

VARIABLES
    clock,              \* wall clock read by time.time()
    ticks,              \* number of clock advances so far (bounds the model)
    data_file,          \* content of data.json: stored_data["users"] in insertion order
    set_order,          \* iteration order of this process's sets (fixed by its hash seed)
    sent_alert_cache,   \* {user: {topic: timestamp}}
    job,                \* per execution of run_scheduled_alert_check: its locals and position
    last_dispatch,      \* history: per (user, topic), when the scheduled path last delivered an alert
    trig,               \* the execution of trigger_check under way: its locals and position
    response,           \* what the last trigger_check returned
    probe               \* input and output of the last classifier call

vars == <<clock, ticks, data_file, set_order, sent_alert_cache, job, last_dispatch, trig, response, probe>>

----------------------------------------------------------------------------
(* Bounds of the model *)

MaxTicks == 2

----------------------------------------------------------------------------
(* Python str primitives, computed character by character *)

LowerChar(c) ==
    CASE c = "A" -> "a" [] c = "B" -> "b" [] c = "C" -> "c" [] c = "D" -> "d"
      [] c = "E" -> "e" [] c = "F" -> "f" [] c = "G" -> "g" [] c = "H" -> "h"
      [] c = "I" -> "i" [] c = "J" -> "j" [] c = "K" -> "k" [] c = "L" -> "l"
      [] c = "M" -> "m" [] c = "N" -> "n" [] c = "O" -> "o" [] c = "P" -> "p"
      [] c = "Q" -> "q" [] c = "R" -> "r" [] c = "S" -> "s" [] c = "T" -> "t"
      [] c = "U" -> "u" [] c = "V" -> "v" [] c = "W" -> "w" [] c = "X" -> "x"
      [] c = "Y" -> "y" [] c = "Z" -> "z" [] OTHER -> c

RECURSIVE lower(_)
\* str.lower()
lower(s) ==
    IF Len(s) = 0 THEN ""
    ELSE IF Len(s) = 1 THEN LowerChar(s)
    ELSE lower(SubSeq(s, 1, Len(s) \div 2)) \o lower(SubSeq(s, Len(s) \div 2 + 1, Len(s)))

\* `needle in s` on strings
contains(needle, s) ==
    \E i \in 1..(Len(s) - Len(needle) + 1) : SubSeq(s, i, i + Len(needle) - 1) = needle

\* [k.lower() for k in keywords], then set(...)
lower_set(keywords) == { lower(keywords[i]) : i \in DOMAIN keywords }

\* dict.get(key, default)
Get(d, key, default) == IF key \in DOMAIN d THEN d[key] ELSE default

\* d[key] = value
Put(d, key, value) == [k \in DOMAIN d \cup {key} |-> IF k = key THEN value ELSE d[k]]

EmptyDict == [k \in {} |-> 0]

----------------------------------------------------------------------------
(* Signals *)

MOCK_SIGNALS == <<
    [id |-> "1", source |-> "Reuters",
     headline |-> "Apple reports record quarterly earnings, stock surges 5%",
     content |-> "Apple Inc. announced exceptional quarterly results, beating analyst expectations.",
     keywords |-> <<"Apple", "AAPL", "earnings">>],
    [id |-> "2", source |-> "Bloomberg",
     headline |-> "Bitcoin crashes 15% amid regulatory fears",
     content |-> "Cryptocurrency markets tumble as SEC announces new enforcement actions against major exchanges.",
     keywords |-> <<"Bitcoin", "BTC", "crypto", "SEC">>],
    [id |-> "3", source |-> "CNBC",
     headline |-> "Tesla faces production delays, shares drop 8%",
     content |-> "Tesla Inc. announced significant production challenges at its Berlin factory, causing investor concern.",
     keywords |-> <<"Tesla", "TSLA", "EV">>],
    [id |-> "4", source |-> "Financial Times",
     headline |-> "Microsoft Azure growth exceeds expectations",
     content |-> "Microsoft's cloud computing division continues strong performance, driving overall company growth.",
     keywords |-> <<"Microsoft", "MSFT", "Azure", "cloud">>],
    [id |-> "5", source |-> "Twitter/X",
     headline |-> "BREAKING: Major bank announces massive layoffs",
     content |-> "One of the largest investment banks is cutting 10,000 jobs worldwide amid economic uncertainty.",
     keywords |-> <<"banking", "layoffs", "recession">>],
    [id |-> "6", source |-> "Reddit r/wallstreetbets",
     headline |-> "GameStop sees unusual trading activity again",
     content |-> "Retail investors are buzzing about potential short squeeze opportunities in GME stock.",
     keywords |-> <<"GameStop", "GME", "meme stocks">>],
    [id |-> "7", source |-> "Associated Press",
     headline |-> "Oil prices stable as OPEC maintains production levels",
     content |-> "Crude oil markets remain steady following OPEC's decision to keep current output quotas.",
     keywords |-> <<"oil", "OPEC", "energy">>],
    [id |-> "8", source |-> "CoinDesk",
     headline |-> "Ethereum upgrade causes network instability",
     content |-> "The latest Ethereum protocol update has resulted in temporary network congestion and failed transactions.",
     keywords |-> <<"Ethereum", "ETH", "crypto">>] >>

\* Records the three fetchers can append (fetch_reddit_signals, fetch_yahoo_signals,
\* fetch_moneycontrol_signals): id, source, headline, content, keywords.
SigBitcoin ==
    [id |-> "reddit_b1", source |-> "Reddit r/stocks",
     headline |-> "Bitcoin crashes 15% overnight",
     content |-> "Bitcoin crashes 15% overnight",
     keywords |-> <<"Bitcoin", "crypto">>]

SigTesla ==
    [id |-> "yahoo_t1", source |-> "Yahoo Finance (TSLA)",
     headline |-> "Tesla shares DROP after recall",
     content |-> "Tesla recalls vehicles",
     keywords |-> <<"TSLA", "Tesla">>]

SigOil ==
    [id |-> "moneycontrol_0", source |-> "Moneycontrol",
     headline |-> "Oil prices plunge on demand worries",
     content |-> "Oil prices plunge on demand worries",
     keywords |-> <<"oil">>]

SigRebound ==
    [id |-> "reddit_r2", source |-> "Reddit r/investing",
     headline |-> "Bitcoin enjoys strong rebound after the crash",
     content |-> "Great gains for crypto holders",
     keywords |-> <<"Bitcoin", "crypto", "crash">>]

SigGold ==
    [id |-> "moneycontrol_1", source |-> "Moneycontrol",
     headline |-> "Gold steady as traders await Fed",
     content |-> "Gold steady as traders await Fed",
     keywords |-> <<"gold", "Fed">>]

\* extract_keywords lists Apple before TSLA; fetch_yahoo_signals puts the ticker first.
SigAppleReddit ==
    [id |-> "reddit_a3", source |-> "Reddit r/stocks",
     headline |-> "Apple and TSLA drop in tech sell-off",
     content |-> "Apple and TSLA drop in tech sell-off",
     keywords |-> <<"Apple", "TSLA">>]

SigAppleYahoo ==
    [id |-> "yahoo_a2", source |-> "Yahoo Finance (TSLA)",
     headline |-> "Apple supplier cuts drag Tesla shares, stocks fall",
     content |-> "Suppliers cut their outlook",
     keywords |-> <<"TSLA", "Apple">>]

\* Every signal record of the model
AllSignals ==
    { MOCK_SIGNALS[i] : i \in DOMAIN MOCK_SIGNALS }
        \cup { SigBitcoin, SigTesla, SigOil, SigRebound, SigGold,
               SigAppleReddit, SigAppleYahoo }

\* What the three sources together can yield in one fetch (all_signals before the fallback).
FetchResults ==
    { << >>,
      <<SigBitcoin, SigTesla, SigOil>>,
      <<SigAppleReddit, SigAppleYahoo>> }

fetch_all_signals_no_fallback(all_signals) == all_signals

\* fetch_all_signals(): the combined list, or MOCK_SIGNALS when nothing was fetched
fetch_all_signals(all_signals) ==
    IF all_signals = << >> THEN MOCK_SIGNALS ELSE all_signals

----------------------------------------------------------------------------
(* Users: what data.json can hold *)

UsersNone == << >>

UsersA ==
    << [username |-> "alice", chat_id |-> "111", watchlist |-> <<"bitcoin", "Tesla", "OIL">>],
       [username |-> "bob", chat_id |-> "222", watchlist |-> <<"Bitcoin">>] >>

UsersB ==
    << [username |-> "carol", chat_id |-> "", watchlist |-> <<"Bitcoin">>],
       [username |-> "dave", chat_id |-> "444", watchlist |-> <<"crypto", "BITCOIN">>] >>

UsersC ==
    << [username |-> "erin", chat_id |-> "555", watchlist |-> <<"Apple", "TSLA", "bitcoin">>] >>

DataFiles == { UsersNone, UsersA, UsersB, UsersC }

\* Every user record of the model
AllUsers == UNION { { file[i] : i \in DOMAIN file } : file \in DataFiles }

Usernames == { user_data.username : user_data \in AllUsers }

----------------------------------------------------------------------------
(* The scheduled scan: run_scheduled_alert_check *)

\* 4 hours in seconds
Cooldown == 14400

\* Max 2 alerts per user per run
MaxAlertsPerRun == 2

bearish_keywords == <<"crash", "fall", "drop", "plunge", "loss", "sell-off", "collapse">>

\* any(kw in headline for kw in bearish_keywords), headline lowercased
is_bearish(signal) ==
    \E i \in DOMAIN bearish_keywords : contains(bearish_keywords[i], lower(signal.headline))

\* set(signal_keywords) & set(user_watchlist), both sides lowercased
matched_keywords(signal, user_data) ==
    lower_set(signal.keywords) \cap lower_set(user_data.watchlist)

\* The two operators above, tabulated once over the records of the model
BearishOf == [signal \in AllSignals |-> is_bearish(signal)]
MatchedOf == [signal \in AllSignals |-> [user_data \in AllUsers |->
                 matched_keywords(signal, user_data)]]

\* list(matched_keywords)[0]: the first element in the set's iteration order, which
\* Python leaves to the hash table; any element can come first.
TopicChoices(matched) == matched

\* set(signal_keywords) & set(user_watchlist) walks the operand with fewer elements
\* (the watchlist when both have as many) and adds the common elements to a new set
\* in the order it meets them: the order of the result depends on the hash values
\* and on the list the walked set was built from.
iteration_source(signal, user_data) ==
    IF Cardinality(lower_set(user_data.watchlist)) > Cardinality(lower_set(signal.keywords))
    THEN [i \in DOMAIN signal.keywords |-> lower(signal.keywords[i])]
    ELSE [i \in DOMAIN user_data.watchlist |-> lower(user_data.watchlist[i])]

\* What the order of a matched set depends on, tabulated
SetKeyOf == [signal \in AllSignals |-> [user_data \in AllUsers |->
                <<iteration_source(signal, user_data), MatchedOf[signal][user_data]>>]]

\* The matched sets of more than one keyword the users of a file can get
MultiKeys(users) ==
    { key \in { SetKeyOf[signal][users[i]] : signal \in AllSignals, i \in DOMAIN users } :
        Cardinality(key[2]) > 1 }

\* The orders a process can have: per walked list and matched set, the element that
\* comes first
SetOrders(users) ==
    { order \in [MultiKeys(users) -> UNION { key[2] : key \in MultiKeys(users) }] :
        \A key \in MultiKeys(users) : order[key] \in TopicChoices(key[2]) }

\* list(matched_keywords)[0]
first_of(order, key) ==
    IF key \in DOMAIN order THEN order[key] ELSE CHOOSE t \in key[2] : TRUE

has_chat_id_always(user_data) == TRUE

\* chat_id = user_data.get("chat_id"); if chat_id ...: a missing chat_id (None) and an
\* empty one are both false, and both are "" here
has_chat_id(user_data) == user_data.chat_id # ""

cap_reached_late(user_alerts_this_run) == user_alerts_this_run > MaxAlertsPerRun

cap_reached_at_one(user_alerts_this_run) == user_alerts_this_run >= 1

\* if user_alerts_this_run >= 2: break
cap_reached(user_alerts_this_run) == user_alerts_this_run >= MaxAlertsPerRun

\* sent_alert_cache[username].get(topic, 0)
last_sent_time(cache, username, topic) == Get(cache[username], topic, 0)

in_cooldown_after(current_time, last) ==
    0 < current_time - last /\ current_time - last < Cooldown

\* 4 hours taken in minutes
in_cooldown_minutes(current_time, last) == current_time - last < 4 * 60

\* if current_time - last_sent_time < 14400: continue
in_cooldown(current_time, last) == current_time - last < Cooldown

counter_after_send_always(counter, success) == counter + 1

\* if chat_id and send_telegram_alert(...): alerts_sent += 1; user_alerts_this_run += 1
counter_after_send(counter, success) == IF success THEN counter + 1 ELSE counter

cache_after_send_always(cache, username, topic, current_time, success) ==
    [cache EXCEPT ![username] = Put(cache[username], topic, current_time)]

cache_after_send_fresh(cache, username, topic, current_time, success) ==
    IF success
    THEN [cache EXCEPT ![username] = Put(EmptyDict, topic, current_time)]
    ELSE cache

\* if chat_id and send_telegram_alert(...): sent_alert_cache[username][topic] = current_time
cache_after_send(cache, username, topic, current_time, success) ==
    IF success
    THEN [cache EXCEPT ![username] = Put(cache[username], topic, current_time)]
    ELSE cache

\* if username not in sent_alert_cache: sent_alert_cache[username] = {}
cache_with_user(cache, username) ==
    IF username \in DOMAIN cache THEN cache ELSE Put(cache, username, EmptyDict)

cache_after_error_reset(cache) == EmptyDict

\* except Exception as e: print(...): the run ends, the cache stays as it is
cache_after_error(cache) == cache

Workers == {1, 2}

IdleJob ==
    [pc |-> "idle", current_time |-> 0, real_signals |-> << >>, ui |-> 0, si |-> 0,
     user_alerts_this_run |-> 0, alerts_sent |-> 0, topic |-> "",
     outcome |-> "none", all_signals |-> << >>, attempts |-> 0, delivered |-> 0,
     cache_at_start |-> EmptyDict, picked |-> EmptyDict, sent_topics |-> {}]

\* A run that has returned: its locals are gone; what it logged stays (how it ended,
\* the timestamp it ran at, the number of alerts it counted).
Returned(j, how) ==
    [IdleJob EXCEPT !.outcome = how, !.current_time = j.current_time,
                    !.alerts_sent = j.alerts_sent]

CurUser(w) == data_file[job[w].ui]
CurSignal(w) == job[w].real_signals[job[w].si]

\* Lines 847-861: load the users, read the clock, fetch the signals once for the run.
ScanStart(w) ==
    /\ job[w].pc = "idle"
    /\ \E load_ok \in BOOLEAN :
         LET fresh == [IdleJob EXCEPT !.current_time = clock,
                                      !.cache_at_start = sent_alert_cache]
         IN  IF ~load_ok
             THEN \* load_data() raises (file unreadable, invalid JSON)
                  /\ job' = [job EXCEPT ![w] = Returned(fresh, "error")]
                  /\ sent_alert_cache' = cache_after_error(sent_alert_cache)
             ELSE IF data_file = << >>
             THEN \* No users registered, skipping check
                  /\ job' = [job EXCEPT ![w] = Returned(fresh, "skipped")]
                  /\ UNCHANGED sent_alert_cache
             ELSE /\ \E all_signals \in FetchResults :
                       job' = [job EXCEPT ![w] =
                                 [fresh EXCEPT !.pc = "user", !.ui = 1,
                                               !.all_signals = all_signals,
                                               !.real_signals = fetch_all_signals(all_signals)]]
                  /\ UNCHANGED sent_alert_cache
    /\ UNCHANGED <<clock, ticks, data_file, set_order, last_dispatch, trig, response, probe>>

\* Lines 863-870: next user of stored_data["users"].items(), or the end of the run.
ScanUser(w) ==
    /\ job[w].pc = "user"
    /\ IF job[w].ui > Len(data_file)
       THEN /\ job' = [job EXCEPT ![w] = Returned(job[w], "complete")]
            /\ UNCHANGED sent_alert_cache
       ELSE /\ job' = [job EXCEPT ![w].pc = "signal", ![w].si = 1,
                                  ![w].user_alerts_this_run = 0,
                                  ![w].attempts = 0, ![w].delivered = 0]
            /\ sent_alert_cache' = cache_with_user(sent_alert_cache, CurUser(w).username)
    /\ UNCHANGED <<clock, ticks, data_file, set_order, last_dispatch, trig, response, probe>>

\* Lines 872-907: one iteration of the loop over real_signals, up to the call of
\* send_telegram_alert.
ScanSignal(w) ==
    /\ job[w].pc = "signal"
    /\ IF job[w].si > Len(job[w].real_signals) \/ cap_reached(job[w].user_alerts_this_run)
       THEN job' = [job EXCEPT ![w].pc = "user", ![w].ui = @ + 1]
       ELSE LET matched == MatchedOf[CurSignal(w)][CurUser(w)]
            IN  IF ~BearishOf[CurSignal(w)] \/ matched = {}
                THEN job' = [job EXCEPT ![w].si = @ + 1]
                ELSE LET topic == first_of(set_order, SetKeyOf[CurSignal(w)][CurUser(w)])
                         seen == Put(job[w].picked, <<CurUser(w).username, matched>>, topic)
                     IN  IF in_cooldown(job[w].current_time,
                                        last_sent_time(sent_alert_cache, CurUser(w).username, topic))
                            \/ ~has_chat_id(CurUser(w))
                         THEN job' = [job EXCEPT ![w].si = @ + 1, ![w].picked = seen]
                         ELSE job' = [job EXCEPT ![w].pc = "send", ![w].topic = topic,
                                                 ![w].picked = seen]
    /\ UNCHANGED <<clock, ticks, data_file, set_order, sent_alert_cache, last_dispatch, trig, response, probe>>

\* Lines 908-912: send_telegram_alert returns True or False (lines 233-247).
ScanSend(w) ==
    /\ job[w].pc = "send"
    /\ \E success \in BOOLEAN :
         LET u == CurUser(w).username
         IN  /\ sent_alert_cache' =
                    cache_after_send(sent_alert_cache, u, job[w].topic,
                                     job[w].current_time, success)
             /\ job' = [job EXCEPT
                          ![w].pc = "signal", ![w].si = @ + 1, ![w].topic = "",
                          ![w].alerts_sent = counter_after_send(@, success),
                          ![w].user_alerts_this_run = counter_after_send(@, success),
                          ![w].attempts = @ + 1,
                          ![w].sent_topics = IF success THEN @ \cup {<<u, job[w].topic>>} ELSE @,
                          ![w].delivered = IF success THEN @ + 1 ELSE @]
             /\ last_dispatch' =
                    IF success
                    THEN Put(last_dispatch, <<u, job[w].topic>>, job[w].current_time)
                    ELSE last_dispatch
    /\ UNCHANGED <<clock, ticks, data_file, set_order, trig, response, probe>>

\* Lines 916-917: any exception inside the try ends the run.
ScanError(w) ==
    /\ job[w].pc \in {"user", "signal", "send"}
    /\ job' = [job EXCEPT ![w] = Returned(job[w], "error")]
    /\ sent_alert_cache' = cache_after_error(sent_alert_cache)
    /\ UNCHANGED <<clock, ticks, data_file, set_order, last_dispatch, trig, response, probe>>

----------------------------------------------------------------------------
(* Sentiment and urgency: analyze_sentiment, analyze_signals_with_llm *)

\* Compound scores the analyzer can return, in units of 1/10000: the ends of the
\* range, zero, and the values at and next to the thresholds 0.05, -0.05 and -0.5.
Scores == { -10000, -5001, -5000, -4999, -501, -500, -499, 0, 499, 500, 501, 10000 }

sentiment_label_strict(compound) ==
    IF compound > 500 THEN "Positive"
    ELSE IF compound < -500 THEN "Negative"
    ELSE "Neutral"

\* Lines 209-214, on the compound score of analyzer.polarity_scores(text)
sentiment_label(compound) ==
    IF compound >= 500 THEN "Positive"
    ELSE IF compound <= -500 THEN "Negative"
    ELSE "Neutral"

\* f"{signal.get('headline', '')} {signal.get('content', '')}"
full_text(signal) == signal.headline \o " " \o signal.content

\* "crash" in full_text.lower() or "plunge" in full_text.lower()
has_crisis_word(text) == contains("crash", lower(text)) \/ contains("plunge", lower(text))

urgency_of_inclusive(label, score, text) ==
    IF label = "Negative"
    THEN IF has_crisis_word(text) THEN "critical"
         ELSE IF score <= -5000 THEN "high"
         ELSE "low"
    ELSE "low"

\* Lines 446-452
urgency_of(label, score, text) ==
    IF label = "Negative"
    THEN IF has_crisis_word(text) THEN "critical"
         ELSE IF score < -5000 THEN "high"
         ELSE "low"
    ELSE "low"

\* urgency_of tabulated once over the records and scores of the model
UrgencyOf == [signal \in AllSignals |-> [score \in Scores |->
                 urgency_of(sentiment_label(score), score, full_text(signal))]]

\* Three scorers standing for analyzer.polarity_scores: bad news scored negative and
\* good news positive, everything neutral, everything strongly negative.
PolarityNews ==
    [signal \in AllSignals |->
        CASE signal.id \in {"2", "reddit_b1", "moneycontrol_0"} -> -5001
          [] signal.id \in {"3", "8", "yahoo_t1"} -> -4999
          [] signal.id = "5" -> -5000
          [] signal.id \in {"1", "4", "reddit_r2"} -> 10000
          [] OTHER -> 0]

PolarityFlat == [signal \in AllSignals |-> 0]

PolarityGloom == [signal \in AllSignals |-> -10000]

Polarities == { PolarityNews, PolarityFlat, PolarityGloom }

\* Lines 441-463: each signal with its sentiment and urgency
analyze_signals_with_llm(signals, polarity) ==
    [i \in DOMAIN signals |->
        [signal |-> signals[i],
         sentiment |-> sentiment_label(polarity[signals[i]]),
         urgency |-> UrgencyOf[signals[i]][polarity[signals[i]]]]]

----------------------------------------------------------------------------
(* The on-demand scan: trigger_check *)

\* if sentiment != "Negative" and urgency not in ["critical", "high"]: continue
is_processed(sentiment, urgency) ==
    ~(sentiment # "Negative" /\ urgency \notin {"critical", "high"})

alerts_after_send_always(alerts_sent, success) == alerts_sent + 1

\* if success: alerts_sent += 1
alerts_after_send(alerts_sent, success) ==
    IF success THEN alerts_sent + 1 ELSE alerts_sent

\* Lines 792-800: the match record (the fields the properties read)
match_record(username, analyzed, matched) ==
    [user |-> username, signal_id |-> analyzed.signal.id, matched_keywords |-> matched,
     sentiment |-> analyzed.sentiment, urgency |-> analyzed.urgency]

\* No request answered yet, no classification made yet
NoResponse == [done |-> FALSE]
NoProbe == [done |-> FALSE]

IdleTrigger ==
    [pc |-> "idle", analyzed_signals |-> << >>, i |-> 0, j |-> 0, alerts_sent |-> 0,
     matches_found |-> << >>, attempts |-> << >>]

TrigSignal == trig.analyzed_signals[trig.i]
TrigUser == data_file[trig.j]

\* Lines 744-750: a new request (the previous response has been delivered): load
\* the users, fetch and analyze the signals.
TriggerStart ==
    /\ trig.pc = "idle"
    /\ \E all_signals \in FetchResults, polarity \in Polarities :
         trig' = [IdleTrigger EXCEPT
                    !.pc = "pair", !.i = 1, !.j = 1,
                    !.analyzed_signals =
                        analyze_signals_with_llm(fetch_all_signals(all_signals), polarity)]
    /\ response' = NoResponse
    /\ UNCHANGED <<clock, ticks, data_file, set_order, sent_alert_cache, job, last_dispatch, probe>>

\* Lines 753-787 and 792-808: one step of the two nested loops, up to the call of
\* send_telegram_alert; past the last signal, the response.
TriggerPair ==
    /\ trig.pc = "pair"
    /\ IF trig.i > Len(trig.analyzed_signals)
       THEN /\ response' = [done |-> TRUE, alerts_sent |-> trig.alerts_sent,
                            matches_found |-> Len(trig.matches_found),
                            details |-> trig.matches_found,
                            analyzed_signals |-> trig.analyzed_signals,
                            attempts |-> trig.attempts]
            /\ trig' = IdleTrigger
       ELSE /\ UNCHANGED response
            /\ IF ~is_processed(TrigSignal.sentiment, TrigSignal.urgency)
                  \/ trig.j > Len(data_file)
               THEN trig' = [trig EXCEPT !.i = @ + 1, !.j = 1]
               ELSE LET matched == MatchedOf[TrigSignal.signal][TrigUser]
                    IN  IF matched = {}
                        THEN trig' = [trig EXCEPT !.j = @ + 1]
                        ELSE IF has_chat_id(TrigUser)
                        THEN trig' = [trig EXCEPT !.pc = "send"]
                        ELSE trig' = [trig EXCEPT
                                        !.j = @ + 1,
                                        !.matches_found =
                                            Append(@, match_record(TrigUser.username,
                                                                   TrigSignal, matched))]
    /\ UNCHANGED <<clock, ticks, data_file, set_order, sent_alert_cache, job, last_dispatch, probe>>

\* The send of trigger_check, were it to record the alert in the ledger as the
\* scheduled scan does
TriggerSendRecording ==
    /\ trig.pc = "send"
    /\ \E success \in BOOLEAN, topic \in MatchedOf[TrigSignal.signal][TrigUser] :
         /\ trig' = [trig EXCEPT
                       !.pc = "pair", !.j = @ + 1,
                       !.alerts_sent = alerts_after_send(@, success),
                       !.attempts = Append(@, [user |-> TrigUser.username,
                                               signal_id |-> TrigSignal.signal.id,
                                               ok |-> success]),
                       !.matches_found =
                           Append(@, match_record(TrigUser.username, TrigSignal,
                                                  MatchedOf[TrigSignal.signal][TrigUser]))]
         /\ sent_alert_cache' =
                cache_after_send(cache_with_user(sent_alert_cache, TrigUser.username),
                                 TrigUser.username, topic, clock, success)
    /\ UNCHANGED <<clock, ticks, data_file, set_order, job, last_dispatch, response, probe>>

\* Lines 788-800: send_telegram_alert returns True or False; the match is listed
\* either way.
TriggerSend ==
    /\ trig.pc = "send"
    /\ \E success \in BOOLEAN :
         trig' = [trig EXCEPT
                    !.pc = "pair", !.j = @ + 1,
                    !.alerts_sent = alerts_after_send(@, success),
                    !.attempts = Append(@, [user |-> TrigUser.username,
                                            signal_id |-> TrigSignal.signal.id,
                                            ok |-> success]),
                    !.matches_found =
                        Append(@, match_record(TrigUser.username, TrigSignal,
                                               MatchedOf[TrigSignal.signal][TrigUser]))]
    /\ UNCHANGED <<clock, ticks, data_file, set_order, sent_alert_cache, job, last_dispatch,
                   response, probe>>

\* One call of the classifier on a signal's text with a compound score.
Classify ==
    /\ \E signal \in AllSignals, score \in Scores :
         probe' = [done |-> TRUE, text |-> full_text(signal), score |-> score,
                   label |-> sentiment_label(score),
                   urgency |-> UrgencyOf[signal][score]]
    /\ UNCHANGED <<clock, ticks, data_file, set_order, sent_alert_cache, job, last_dispatch,
                   trig, response>>

----------------------------------------------------------------------------
(* Keyword matching on text beyond ASCII.  A keyword is here the sequence of its   *)
(* code points, since a watchlist keyword is whatever text the user posted.        *)

\* str.lower() on one character: A-Z, and U+0130 (two code points); U+017F (long s),
\* U+00DF and U+0131 are lowercase already.
py_lower(cp) ==
    IF 65 <= cp /\ cp <= 90 THEN <<cp + 32>>
    ELSE IF cp = 304 THEN <<105, 775>>
    ELSE <<cp>>

\* str.upper() on one character: a-z, U+017F -> S, U+00DF -> SS, U+0131 -> I
py_upper(cp) ==
    IF 97 <= cp /\ cp <= 122 THEN <<cp - 32>>
    ELSE IF cp = 383 THEN <<83>>
    ELSE IF cp = 223 THEN <<83, 83>>
    ELSE IF cp = 305 THEN <<73>>
    ELSE <<cp>>

RECURSIVE str_lower(_)
str_lower(text) ==
    IF text = << >> THEN << >> ELSE py_lower(Head(text)) \o str_lower(Tail(text))

RECURSIVE str_upper(_)
str_upper(text) ==
    IF text = << >> THEN << >> ELSE py_upper(Head(text)) \o str_upper(Tail(text))

\* The letter cases a keyword can be given: as typed, all capitals, all small
recase(how, text) ==
    CASE how = "upper" -> str_upper(text)
      [] how = "lower" -> str_lower(text)
      [] OTHER -> text

recase_list(how, keywords) == [k \in DOMAIN keywords |-> recase(how, keywords[k])]

\* set([k.lower() for k in keywords]) & set([k.lower() for k in watchlist])
matched_code_points(keywords, watchlist) ==
    { str_lower(keywords[k]) : k \in DOMAIN keywords }
        \cap { str_lower(watchlist[k]) : k \in DOMAIN watchlist }

\* "sec", "SEC", "Sec", "btc", "BTC", and "sec" spelt with the long s (U+017F)
KeywordTexts ==
    { <<115, 101, 99>>, <<83, 69, 67>>, <<83, 101, 99>>, <<98, 116, 99>>,
      <<66, 84, 67>>, <<383, 101, 99>> }

KeywordLists ==
    { <<k>> : k \in KeywordTexts } \cup { <<<<98, 116, 99>>, k>> : k \in KeywordTexts }

\* One keyword list of a signal matched against one watchlist, before and after the
\* letter case of one side is changed.
MatchKeywords ==
    /\ \E keywords \in KeywordLists, watchlist \in KeywordLists,
          how \in {"upper", "lower"}, side \in {"signal", "watchlist"} :
         probe' = [done |-> TRUE, keywords |-> keywords, watchlist |-> watchlist,
                   how |-> how, side |-> side,
                   matched_keywords |-> matched_code_points(keywords, watchlist),
                   matched_recased |->
                       IF side = "signal"
                       THEN matched_code_points(recase_list(how, keywords), watchlist)
                       ELSE matched_code_points(keywords, recase_list(how, watchlist))]
    /\ UNCHANGED <<clock, ticks, data_file, set_order, sent_alert_cache, job, last_dispatch,
                   trig, response>>

----------------------------------------------------------------------------
(* The clock *)

\* Waits between two runs: one second less than the cooldown, and the cooldown exactly.
Deltas == { Cooldown - 1, Cooldown }

\* scheduler.add_job(..., trigger="interval", minutes=5)
TickInterval == 5 * 60

Tick ==
    /\ ticks < MaxTicks
    /\ \A w \in Workers : job[w].pc = "idle"
    /\ \E d \in Deltas : clock' = clock + d
    /\ ticks' = ticks + 1
    /\ UNCHANGED <<data_file, set_order, sent_alert_cache, job, last_dispatch, trig, response, probe>>

\* One scheduler interval passes while a run is under way.
Elapse ==
    /\ ticks < MaxTicks
    /\ \E w \in Workers : job[w].pc # "idle"
    /\ clock' = clock + TickInterval
    /\ ticks' = ticks + 1
    /\ UNCHANGED <<data_file, set_order, sent_alert_cache, job, last_dispatch, trig, response, probe>>

----------------------------------------------------------------------------
(* Specifications *)


Init ==
    /\ clock = 0
    /\ ticks = 0
    /\ data_file \in DataFiles
    /\ set_order \in SetOrders(data_file)
    /\ sent_alert_cache = EmptyDict
    /\ job = [w \in Workers |-> IdleJob]
    /\ last_dispatch = EmptyDict
    /\ trig = IdleTrigger
    /\ response = NoResponse
    /\ probe = NoProbe

\* The scheduler runs one instance of the job at a time.
Next ==
    \/ ScanStart(1)
    \/ ScanUser(1)
    \/ ScanSignal(1)
    \/ ScanSend(1)
    \/ ScanError(1)
    \/ Tick

Spec == Init /\ [][Next]_vars

\* Two executions of run_scheduled_alert_check under way at once: nothing in the
\* function keeps a second call from starting while the first is inside a send.
\* The clock starts past the first 4 hours of the epoch, with one data file.
InitConc ==
    /\ clock = Cooldown
    /\ ticks = 0
    /\ data_file = UsersB
    /\ set_order \in SetOrders(data_file)
    /\ sent_alert_cache = EmptyDict
    /\ job = [w \in Workers |-> IdleJob]
    /\ last_dispatch = EmptyDict
    /\ trig = IdleTrigger
    /\ response = NoResponse
    /\ probe = NoProbe

\* Each of the two executions runs once.
NextConc ==
    \/ \E w \in Workers : job[w].outcome = "none" /\ ScanStart(w)
    \/ \E w \in Workers : ScanUser(w)
    \/ \E w \in Workers : ScanSignal(w)
    \/ \E w \in Workers : ScanSend(w)
    \/ Elapse

SpecConc == InitConc /\ [][NextConc]_vars

\* The on-demand trigger, called while scheduled runs come and go.
InitTrigger ==
    /\ clock = Cooldown
    /\ ticks = 0
    /\ data_file \in DataFiles
    /\ set_order \in SetOrders(data_file)
    /\ sent_alert_cache = EmptyDict
    /\ job = [w \in Workers |-> IdleJob]
    /\ last_dispatch = EmptyDict
    /\ trig = IdleTrigger
    /\ response = NoResponse
    /\ probe = NoProbe

NextTrigger ==
    \/ job[1].outcome = "none" /\ ScanStart(1)
    \/ ScanUser(1)
    \/ ScanSignal(1)
    \/ ScanSend(1)
    \/ TriggerStart
    \/ TriggerPair
    \/ TriggerSend

SpecTrigger == InitTrigger /\ [][NextTrigger]_vars

\* No user, no run: the state in which the functions are probed on their own.
InitProbe ==
    /\ clock = 0
    /\ ticks = 0
    /\ data_file = UsersNone
    /\ set_order \in SetOrders(data_file)
    /\ sent_alert_cache = EmptyDict
    /\ job = [w \in Workers |-> IdleJob]
    /\ last_dispatch = EmptyDict
    /\ trig = IdleTrigger
    /\ response = NoResponse
    /\ probe = NoProbe

\* The classifier alone, on every text and score of the model.
NextClassify == Classify

SpecClassify == InitProbe /\ [][NextClassify]_vars

\* Keyword matching alone, on every pair of keyword lists of the model.
NextMatch == MatchKeywords

SpecMatch == InitProbe /\ [][NextMatch]_vars

----------------------------------------------------------------------------
(* Vocabulary of the properties *)

Topics == UNION { lower_set(sig.keywords) : sig \in AllSignals }

\* The ledger as a set of <<user, topic, timestamp>> entries
Entries(cache) ==
    UNION { { <<u, t, cache[u][t]>> : t \in DOMAIN cache[u] } : u \in DOMAIN cache }

\* The timestamp recorded for (u, t): a set with one element, or empty
Entry(cache, u, t) ==
    IF u \in DOMAIN cache /\ t \in DOMAIN cache[u] THEN {cache[u][t]} ELSE {}

Running(w) == job[w].pc # "idle"

\* The (user, topic) pair of the send a run is waiting for
Key(w) == <<CurUser(w).username, job[w].topic>>

\* The step is a send of w that returned True / False
SendSucceeds(w) ==
    /\ job[w].pc = "send"
    /\ job'[w].pc = "signal"
    /\ job'[w].delivered = job[w].delivered + 1

SendFails(w) ==
    /\ job[w].pc = "send"
    /\ job'[w].pc = "signal"
    /\ job'[w].delivered = job[w].delivered

\* The step examines, for a user who has a chat_id and has had fewer than 2 alerts in
\* this run, a signal that is bearish and matches the watchlist.
ExaminesMatch(w) ==
    /\ job[w].pc = "signal"
    /\ job'[w].pc \in {"signal", "send"}
    /\ job[w].si <= Len(job[w].real_signals)
    /\ job[w].delivered < 2
    /\ CurUser(w).chat_id # ""
    /\ BearishOf[CurSignal(w)]
    /\ MatchedOf[CurSignal(w)][CurUser(w)] # {}

----------------------------------------------------------------------------
(* C1: a pair alerted by the run at t1 is alerted by no run at t2 with            *)
(* t1 < t2 < t1 + 4 hours; once the last alert of every topic the signal matches   *)
(* is 4 hours old or more, a bearish matching signal is sent again (the cap not    *)
(* reached; the alert counts when the send succeeds).                              *)

C1_Suppressed(w) ==
    ( /\ SendSucceeds(w)
      /\ Key(w) \in DOMAIN last_dispatch
      /\ last_dispatch[Key(w)] < job[w].current_time )
        => job[w].current_time - last_dispatch[Key(w)] >= 14400

C1_AllowedAgain(w) ==
    ( /\ ExaminesMatch(w)
      /\ \A t \in MatchedOf[CurSignal(w)][CurUser(w)] :
            /\ <<CurUser(w).username, t>> \in DOMAIN last_dispatch
            /\ job[w].current_time - last_dispatch[<<CurUser(w).username, t>>] >= 14400 )
        => /\ job'[w].pc = "send"
           /\ job'[w].topic \in MatchedOf[CurSignal(w)][CurUser(w)]

C1_CooldownWindow ==
    [][\A w \in Workers : C1_Suppressed(w) /\ C1_AllowedAgain(w)]_vars

\* A second alert for a pair is on its way, 4 hours or more after the first.
C1_Witness ==
    /\ job[1].pc = "send"
    /\ Key(1) \in DOMAIN last_dispatch
    /\ job[1].current_time - last_dispatch[Key(1)] >= 14400

----------------------------------------------------------------------------
(* C2: in one scheduled run no user is sent more than 2 alerts.                    *)

C2_PerRunCap == \A w \in Workers : job[w].delivered <= 2

\* Two alerts delivered to the user, and a third signal that is bearish, matches
\* and is out of cooldown is next.
C2_Witness ==
    /\ job[1].pc = "signal"
    /\ job[1].delivered = 2
    /\ job[1].si <= Len(job[1].real_signals)
    /\ BearishOf[CurSignal(1)]
    /\ MatchedOf[CurSignal(1)][CurUser(1)] # {}
    /\ \A t \in MatchedOf[CurSignal(1)][CurUser(1)] :
          \A at \in Entry(sent_alert_cache, CurUser(1).username, t) :
              job[1].current_time - at >= 14400

----------------------------------------------------------------------------
(* C4: a ledger entry changes only in a send for its pair that returned success,   *)
(* and then to the run's timestamp; a send that fails leaves the ledger as it was. *)

C4_EntryChange(u, t) ==
    Entry(sent_alert_cache', u, t) # Entry(sent_alert_cache, u, t)
        => \E w \in Workers :
              /\ SendSucceeds(w)
              /\ Key(w) = <<u, t>>
              /\ Entry(sent_alert_cache', u, t) = {job[w].current_time}

C4_WrittenOnlyOnSuccess ==
    [][ /\ \A e \in Entries(sent_alert_cache) \cup Entries(sent_alert_cache') :
              C4_EntryChange(e[1], e[2])
        /\ \A w \in Workers :
              SendFails(w) => Entries(sent_alert_cache') = Entries(sent_alert_cache) ]_vars

\* The only send to the first user so far failed, and the ledger is as the run found it.
C4_Witness ==
    /\ job[1].pc = "signal"
    /\ job[1].ui = 1
    /\ job[1].attempts = 1
    /\ job[1].delivered = 0
    /\ Entries(sent_alert_cache) = Entries(job[1].cache_at_start)

----------------------------------------------------------------------------
(* C6 as stated: a run whose sources yielded no signal sends no alert and leaves   *)
(* the ledger unchanged.                                                           *)

C6_EmptyFetchSendsNothing ==
    \A w \in Workers :
        (Running(w) /\ job[w].all_signals = << >>)
            => /\ job[w].alerts_sent = 0
               /\ Entries(sent_alert_cache) = Entries(job[w].cache_at_start)

MockBearishTopics == { "bitcoin", "btc", "crypto", "sec", "tesla", "tsla", "ev" }

Watchlist(u) ==
    UNION { lower_set(data_file[i].watchlist) :
              i \in { k \in DOMAIN data_file : data_file[k].username = u } }

(* C6 as amended: a run whose sources yielded no signal scans MOCK_SIGNALS; every  *)
(* ledger entry it writes carries the run's timestamp and is for a keyword of the  *)
(* two bearish mock headlines that is on the user's watchlist, and it counts one   *)
(* alert per entry written.                                                        *)
C6_EmptyFetchScansMock ==
    \A w \in Workers :
        (Running(w) /\ job[w].all_signals = << >>)
            => LET written == Entries(sent_alert_cache) \ Entries(job[w].cache_at_start)
               IN  /\ job[w].real_signals = MOCK_SIGNALS
                   /\ job[w].alerts_sent = Cardinality(written)
                   /\ \A e \in written :
                         /\ e[3] = job[w].current_time
                         /\ e[2] \in MockBearishTopics
                         /\ e[2] \in Watchlist(e[1])

\* A run whose sources yielded nothing has delivered an alert.
C6_Witness ==
    /\ Running(1)
    /\ job[1].all_signals = << >>
    /\ job[1].alerts_sent >= 1

----------------------------------------------------------------------------
(* C8 as stated: a bearish matching signal whose topics have no ledger record for  *)
(* the user is sent at every run timestamp.                                        *)

C8_NeverAlertedIsEligible ==
    [][\A w \in Workers :
         ( /\ ExaminesMatch(w)
           /\ \A t \in MatchedOf[CurSignal(w)][CurUser(w)] :
                 /\ Entry(sent_alert_cache, CurUser(w).username, t) = {}
                 /\ <<CurUser(w).username, t>> \notin DOMAIN last_dispatch )
             => job'[w].pc = "send" ]_vars

----------------------------------------------------------------------------
(* C10: a run that ends in an error leaves every ledger entry as it was, puts the  *)
(* job back where the scheduler starts it, and the run started next begins like    *)
(* any other run.                                                                  *)

EndsInError(w) == job'[w].outcome = "error" /\ job'[w] # job[w]

StartsRun(w) == job[w].pc = "idle" /\ job'[w].pc # "idle"

C10_ErrorAbortsOnlyTheRun ==
    [][\A w \in Workers :
         /\ EndsInError(w) =>
               /\ Entries(sent_alert_cache') = Entries(sent_alert_cache)
               /\ job'[w].pc = "idle"
         /\ (StartsRun(w) /\ job[w].outcome = "error") =>
               /\ job'[w].pc = "user"
               /\ job'[w].ui = 1
               /\ job'[w].current_time = clock
               /\ job'[w].alerts_sent = 0
               /\ job'[w].real_signals = fetch_all_signals(job'[w].all_signals)
               /\ sent_alert_cache' = sent_alert_cache ]_vars

\* A run has ended in an error after it had delivered an alert, and the entry it
\* wrote is in the ledger.
C10_Witness ==
    /\ job[1].outcome = "error"
    /\ job[1].pc = "idle"
    /\ job[1].alerts_sent > 0
    /\ \E e \in Entries(sent_alert_cache) : e[3] = job[1].current_time


----------------------------------------------------------------------------
(* C3 as stated: no two runs both alert the same pair within one 4-hour window:    *)
(* an alert for a pair that has been alerted before is delivered only by a run     *)
(* whose timestamp is 4 hours or more away from that of the earlier alert.         *)

C3_NoDoubleDispatch ==
    [][\A w \in Workers :
         (SendSucceeds(w) /\ Key(w) \in DOMAIN last_dispatch)
             => LET apart == job[w].current_time - last_dispatch[Key(w)]
                IN  apart >= 14400 \/ -apart >= 14400 ]_vars

----------------------------------------------------------------------------
(* C5 as stated: a text that contains "crash" or "plunge" in any letter case is    *)
(* classified critical, whatever its sentiment label.                              *)

C5_CrisisWordIsCritical ==
    (probe.done /\ has_crisis_word(probe.text)) => probe.urgency = "critical"

----------------------------------------------------------------------------
(* Vocabulary of the properties of trigger_check *)

\* The signal is one trigger_check processes: Negative, or of high or critical urgency
Qualifies(analyzed) ==
    analyzed.sentiment = "Negative" \/ analyzed.urgency \in {"critical", "high"}

\* Some keyword of the signal and some keyword of the watchlist are equal up to case
SharesKeyword ==
    [signal \in AllSignals |-> [user_data \in AllUsers |->
        \E k \in DOMAIN signal.keywords, l \in DOMAIN user_data.watchlist :
            lower(signal.keywords[k]) = lower(user_data.watchlist[l])]]

\* The (signal, user) positions in the order of the two loops
Positions(n, m) == [k \in 1..(n * m) |-> <<((k - 1) \div m) + 1, ((k - 1) % m) + 1>>]

IsMatchedPair(analyzed_signals, users, pos) ==
    /\ Qualifies(analyzed_signals[pos[1]])
    /\ SharesKeyword[analyzed_signals[pos[1]].signal][users[pos[2]]]

\* The matched pairs of a request, in order, as <<signal_id, user>>
MatchedPairs(analyzed_signals, users, with_chat_id_only) ==
    LET keep(pos) == /\ IsMatchedPair(analyzed_signals, users, pos)
                     /\ with_chat_id_only => users[pos[2]].chat_id # ""
        kept == SelectSeq(Positions(Len(analyzed_signals), Len(users)), keep)
    IN  [k \in DOMAIN kept |->
            <<analyzed_signals[kept[k][1]].signal.id, users[kept[k][2]].username>>]

PairsOf(records) == [k \in DOMAIN records |-> <<records[k].signal_id, records[k].user>>]

Successes(attempts) == Cardinality({ k \in DOMAIN attempts : attempts[k].ok })

\* What C7 says of the counters of a response
C7_Counts ==
    /\ response.alerts_sent = Successes(response.attempts)
    /\ PairsOf(response.details) = MatchedPairs(response.analyzed_signals, data_file, FALSE)
    /\ response.matches_found = Len(response.details)
    /\ response.alerts_sent <= response.matches_found

(* C7 as stated: every matched pair of a request is attempted, whatever the        *)
(* outcome of the other sends; alerts_sent counts the sends that returned success, *)
(* matches_found counts all matched pairs and is the length of details.            *)
C7_EveryMatchAttempted ==
    response.done =>
        /\ PairsOf(response.attempts)
               = MatchedPairs(response.analyzed_signals, data_file, FALSE)
        /\ C7_Counts

(* C7 as amended: every matched pair whose user has a chat_id is attempted,        *)
(* whatever the outcome of the other sends; alerts_sent counts the sends that      *)
(* returned success, matches_found counts all matched pairs (with or without a     *)
(* chat_id) and is the length of details.                                          *)
C7_EveryReachableMatchAttempted ==
    response.done =>
        /\ PairsOf(response.attempts)
               = MatchedPairs(response.analyzed_signals, data_file, TRUE)
        /\ C7_Counts

\* A send of the request failed, a later one was made and succeeded, and fewer
\* alerts are counted than matches.
C7_Witness ==
    /\ response.done
    /\ \E k, l \in DOMAIN response.attempts :
          k < l /\ ~response.attempts[k].ok /\ response.attempts[l].ok
    /\ response.alerts_sent >= 1
    /\ response.alerts_sent < response.matches_found

----------------------------------------------------------------------------
\* The step is one of trigger_check
TriggerStep == trig' # trig

\* trigger_check is at a matched pair of a qualifying signal
AtMatchedPair ==
    /\ trig.pc = "pair"
    /\ trig.i <= Len(trig.analyzed_signals)
    /\ trig.j <= Len(data_file)
    /\ IsMatchedPair(trig.analyzed_signals, data_file, <<trig.i, trig.j>>)

\* The step records a send for the pair trigger_check is at
AttemptsPair ==
    /\ Len(trig'.attempts) = Len(trig.attempts) + 1
    /\ trig'.attempts[Len(trig'.attempts)].user = TrigUser.username
    /\ trig'.attempts[Len(trig'.attempts)].signal_id = TrigSignal.signal.id

(* C9 as stated: no step of trigger_check changes the ledger, and at every matched *)
(* pair of a qualifying signal it goes on to send, whatever the ledger holds.      *)
C9_TriggerIgnoresLedger ==
    [][ /\ TriggerStep => sent_alert_cache' = sent_alert_cache
        /\ (TriggerStep /\ AtMatchedPair) => trig'.pc = "send"
        /\ (TriggerStep /\ trig.pc = "send") => AttemptsPair ]_vars

(* C9 as amended: no step of trigger_check changes the ledger, and at every        *)
(* matched pair of a qualifying signal whose user has a chat_id it goes on to      *)
(* send, whatever the ledger holds.                                                *)
C9_TriggerIgnoresLedgerWithChat ==
    [][ /\ TriggerStep => sent_alert_cache' = sent_alert_cache
        /\ (TriggerStep /\ AtMatchedPair /\ TrigUser.chat_id # "") => trig'.pc = "send"
        /\ (TriggerStep /\ trig.pc = "send") => AttemptsPair ]_vars

\* trigger_check is sending for a pair while the ledger holds, for a matched topic
\* of that pair, an alert the scheduled scan delivered at the present time.
C9_Witness ==
    /\ trig.pc = "send"
    /\ \E t \in MatchedOf[TrigSignal.signal][TrigUser] :
          Entry(sent_alert_cache, TrigUser.username, t) = {clock}


----------------------------------------------------------------------------
(* C11: the label is Positive exactly for scores of 0.05 and more, Negative       *)
(* exactly for scores of -0.05 and less, and Neutral for every score in between;   *)
(* 0.05 is Positive, -0.05 is Negative, 0 is Neutral.                              *)

C11_LabelThresholds ==
    probe.done =>
        /\ probe.label = "Positive" <=> probe.score >= 500
        /\ probe.label = "Negative" <=> probe.score <= -500
        /\ probe.label = "Neutral" <=> (-500 < probe.score /\ probe.score < 500)
        /\ probe.label \in {"Positive", "Negative", "Neutral"}

\* The score -0.05 has been labelled Negative.
C11_Witness ==
    /\ probe.done
    /\ probe.score = -500
    /\ probe.label = "Negative"

----------------------------------------------------------------------------
(* C12: a text without "crash" and "plunge" is of high urgency exactly when its    *)
(* label is Negative and its score is below -0.5, and of low urgency otherwise     *)
(* (Negative at exactly -0.5 is low).                                              *)

C12_UrgencyWithoutCrisisWord ==
    (probe.done /\ ~has_crisis_word(probe.text)) =>
        probe.urgency = IF probe.label = "Negative" /\ probe.score < -5000
                        THEN "high" ELSE "low"

\* A text without crisis word, scored exactly -0.5, has been classified low.
C12_Witness ==
    /\ probe.done
    /\ ~has_crisis_word(probe.text)
    /\ probe.score = -5000
    /\ probe.label = "Negative"
    /\ probe.urgency = "low"


----------------------------------------------------------------------------
(* C13 as stated: giving the keywords of the signal, or those of the watchlist,    *)
(* another letter case changes neither whether there is a match nor the set of     *)
(* lowercased matched keywords.                                                    *)

C13_MatchIgnoresCase ==
    probe.done => probe.matched_recased = probe.matched_keywords


----------------------------------------------------------------------------
\* The step evaluates list(matched_keywords)[0] for a bearish, matching signal
SelectsTopic(w) ==
    /\ job[w].pc = "signal"
    /\ job'[w].pc \in {"signal", "send"}
    /\ job[w].si <= Len(job[w].real_signals)
    /\ ~cap_reached(job[w].user_alerts_this_run)
    /\ BearishOf[CurSignal(w)]
    /\ MatchedOf[CurSignal(w)][CurUser(w)] # {}

(* C14 as stated: an evaluation whose matched set was met before in the run, for   *)
(* the same user, selects the topic selected then.                                 *)

C14_TopicIsFunctionOfSet ==
    [][\A w \in Workers :
         LET key == <<CurUser(w).username, MatchedOf[CurSignal(w)][CurUser(w)]>>
         IN  (SelectsTopic(w) /\ key \in DOMAIN job[w].picked)
                 => job'[w].picked[key] = job[w].picked[key] ]_vars


----------------------------------------------------------------------------
\* The step is one of run w inside its try block that does not end it in an error
RunStep(w) == job'[w] # job[w] /\ job[w].pc # "idle" /\ job'[w].outcome # "error"

\* The topic of the signal run w is at passes the test of line 895: its entry is
\* 14400 s old or more, or it has none and the clock reads 14400 s or more.
TopicEligible(w) ==
    LET entry == Entry(sent_alert_cache, CurUser(w).username,
                       first_of(set_order, SetKeyOf[CurSignal(w)][CurUser(w)]))
    IN  IF entry = {} THEN job[w].current_time >= 14400
        ELSE \A at \in entry : job[w].current_time - at >= 14400

(* C15: for each user a run takes the signals one by one in the order of the       *)
(* fetched list; below 2 alerts it goes on to the next signal and sends for every  *)
(* signal that is bearish, matches, is out of cooldown (the user having a          *)
(* chat_id); every alert delivered is for such a signal; at 2 alerts it examines   *)
(* no further signal and turns to the next user, who starts at the first signal    *)
(* with a counter of 0.                                                            *)

C15_FirstTwoInFetchOrder ==
    [][\A w \in Workers :
         /\ (RunStep(w) /\ job[w].pc = "signal" /\ job[w].delivered < 2
                 /\ job[w].si <= Len(job[w].real_signals))
               => /\ job'[w].pc \in {"signal", "send"}
                  /\ job'[w].ui = job[w].ui
                  /\ job'[w].si = IF job'[w].pc = "send" THEN job[w].si ELSE job[w].si + 1
         /\ (RunStep(w) /\ job[w].pc = "signal"
                 /\ (job[w].delivered >= 2 \/ job[w].si > Len(job[w].real_signals)))
               => /\ job'[w].pc = "user"
                  /\ job'[w].ui = job[w].ui + 1
         /\ ExaminesMatch(w) => (job'[w].pc = "send" <=> TopicEligible(w))
         /\ SendSucceeds(w)
               => /\ BearishOf[CurSignal(w)]
                  /\ MatchedOf[CurSignal(w)][CurUser(w)] # {}
                  /\ job[w].delivered < 2
                  /\ job'[w].si = job[w].si + 1
                  /\ \A at \in Entry(sent_alert_cache, CurUser(w).username, job[w].topic) :
                        job[w].current_time - at >= 14400
         /\ (RunStep(w) /\ job[w].pc = "user" /\ job'[w].pc = "signal")
               => /\ job'[w].si = 1
                  /\ job'[w].delivered = 0
                  /\ job'[w].user_alerts_this_run = 0 ]_vars

\* The first user has had 2 alerts, for the first two signals of the batch, the third
\* signal (which matches her watchlist too) has not been sent, and the run is at the
\* second user's first signal with his counter at 0.
C15_Witness ==
    /\ job[1].pc = "signal"
    /\ job[1].ui = 2
    /\ job[1].si = 1
    /\ job[1].delivered = 0
    /\ job[1].alerts_sent = 2
    /\ job[1].real_signals = <<SigBitcoin, SigTesla, SigOil>>
    /\ Entry(sent_alert_cache, "alice", "bitcoin") = {job[1].current_time}
    /\ Entry(sent_alert_cache, "alice", "tesla") = {job[1].current_time}
    /\ Entry(sent_alert_cache, "alice", "oil") = {}


----------------------------------------------------------------------------
(* C16: with runs one after the other, a ledger entry is never removed, its        *)
(* timestamp never decreases, and it is at all times the timestamp of the latest   *)
(* run that delivered an alert for the pair (however old it has grown).            *)

C16_EntryIsLatestDispatch ==
    Entries(sent_alert_cache)
        = { <<key[1], key[2], last_dispatch[key]>> : key \in DOMAIN last_dispatch }

C16_EntriesKept ==
    [][ /\ \A e \in Entries(sent_alert_cache) :
              /\ Entry(sent_alert_cache', e[1], e[2]) # {}
              /\ \A later \in Entry(sent_alert_cache', e[1], e[2]) : later >= e[3]
        /\ C16_EntryIsLatestDispatch' ]_vars

\* A run has completed that overwrote one entry of a user and left another one, 4
\* hours old by then, in place.
C16_Witness ==
    /\ job[1].pc = "idle"
    /\ job[1].outcome = "complete"
    /\ \E e, f \in Entries(sent_alert_cache) :
          /\ e[1] = f[1]
          /\ f[3] = job[1].current_time
          /\ job[1].current_time - e[3] >= 14400


----------------------------------------------------------------------------
\* The users of data.json without a chat_id
NoChat == { data_file[i].username : i \in { k \in DOMAIN data_file : data_file[k].chat_id = "" } }

(* C17: neither path is ever at a send for a user without chat_id; the scheduled   *)
(* scan writes no ledger entry for such a user and counts nothing for him; the     *)
(* response of trigger_check lists each of his matches in details and counts it in *)
(* matches_found, and alerts_sent counts only sends that were made and succeeded.  *)

C17_NoSendWithoutChatId ==
    /\ \A w \in Workers :
          /\ job[w].pc = "send" => CurUser(w).username \notin NoChat
          /\ (job[w].pc \in {"signal", "send"} /\ CurUser(w).username \in NoChat)
                => /\ job[w].attempts = 0
                   /\ job[w].delivered = 0
                   /\ job[w].user_alerts_this_run = 0
    /\ \A e \in Entries(sent_alert_cache) : e[1] \notin NoChat
    /\ trig.pc = "send" => TrigUser.username \notin NoChat
    /\ \A k \in DOMAIN trig.attempts : trig.attempts[k].user \notin NoChat
    /\ response.done =>
          /\ \A k \in DOMAIN response.attempts : response.attempts[k].user \notin NoChat
          /\ \A k \in DOMAIN response.analyzed_signals, i \in DOMAIN data_file :
                (data_file[i].username \in NoChat
                    /\ IsMatchedPair(response.analyzed_signals, data_file, <<k, i>>))
                  => \E d \in DOMAIN response.details :
                        /\ response.details[d].user = data_file[i].username
                        /\ response.details[d].signal_id = response.analyzed_signals[k].signal.id
          /\ response.matches_found = Len(response.details)
          /\ response.alerts_sent = Successes(response.attempts)

\* The scheduled run has completed with an alert for the second user and no entry
\* for the first, who has no chat_id; trigger_check has answered, every send it made
\* succeeded, and it lists a match of the first user that it did not send.
C17_Witness ==
    /\ NoChat # {}
    /\ job[1].pc = "idle"
    /\ job[1].outcome = "complete"
    /\ job[1].alerts_sent >= 1
    /\ response.done
    /\ \E d \in DOMAIN response.details : response.details[d].user \in NoChat
    /\ \A k \in DOMAIN response.attempts : response.attempts[k].ok
    /\ response.alerts_sent >= 1
    /\ response.alerts_sent < response.matches_found


----------------------------------------------------------------------------
(* C18: a run delivers at most one alert per (user, topic): a send never succeeds  *)
(* for a pair the same run has alerted already, and a signal that selects such a   *)
(* pair is passed over.                                                            *)

C18_OncePerRun ==
    [][\A w \in Workers :
         /\ SendSucceeds(w) => Key(w) \notin job[w].sent_topics
         /\ (SelectsTopic(w)
                /\ <<CurUser(w).username,
                     first_of(set_order, SetKeyOf[CurSignal(w)][CurUser(w)])>>
                        \in job[w].sent_topics)
               => /\ job'[w].pc = "signal"
                  /\ job'[w].si = job[w].si + 1
         /\ Running(w)' => Cardinality(job'[w].sent_topics) = job'[w].alerts_sent ]_vars

\* The run is past a second signal that selected the topic of the alert it delivered
\* for the first, and has delivered that one alert only.
C18_Witness ==
    /\ job[1].pc = "signal"
    /\ job[1].si = 3
    /\ job[1].real_signals = <<SigAppleReddit, SigAppleYahoo>>
    /\ job[1].delivered = 1
    /\ job[1].attempts = 1
    /\ first_of(set_order, SetKeyOf[SigAppleReddit][CurUser(1)])
          = first_of(set_order, SetKeyOf[SigAppleYahoo][CurUser(1)])
    /\ job[1].sent_topics
          = {<<"erin", first_of(set_order, SetKeyOf[SigAppleYahoo][CurUser(1)])>>}


----------------------------------------------------------------------------
(* C19: a send that fails leaves the user's counter as it was and the run goes on  *)
(* to the next signal; a send that succeeds adds one; the counter is the number of *)
(* alerts delivered to the user in the run and is at most 2, while the number of   *)
(* sends made for him is not bounded by 2.                                         *)

C19_FailedSendNotCounted ==
    [][\A w \in Workers :
         /\ SendFails(w)
               => /\ job'[w].user_alerts_this_run = job[w].user_alerts_this_run
                  /\ job'[w].alerts_sent = job[w].alerts_sent
                  /\ job'[w].attempts = job[w].attempts + 1
                  /\ job'[w].si = job[w].si + 1
                  /\ job'[w].ui = job[w].ui
         /\ SendSucceeds(w)
               => /\ job'[w].user_alerts_this_run = job[w].user_alerts_this_run + 1
                  /\ job'[w].attempts = job[w].attempts + 1
         /\ Running(w)'
               => /\ job'[w].user_alerts_this_run = job'[w].delivered
                  /\ job'[w].delivered <= 2
                  /\ job'[w].delivered <= job'[w].attempts ]_vars

\* Three sends have been made for one user in the run: the first failed, the two
\* after it succeeded.
C19_Witness ==
    /\ job[1].pc = "signal"
    /\ job[1].attempts = 3
    /\ job[1].delivered = 2
    /\ job[1].user_alerts_this_run = 2
    /\ Entry(sent_alert_cache, CurUser(1).username, "bitcoin") = {}

============================================================================
